---- MODULE Spec2Model ----
(***************************************************************************)
(* Model of backend/app.py: the /extract_keywords handler, its input       *)
(* validation, the call of the zero-shot scorer, and the threshold filter, *)
(* rounding and ranking of classify_text_topics.                           *)
(*                                                                         *)
(* Scores are integers in units of 1e-4 (0.1 is 1000, 1.0 is 10000); a     *)
(* confidence_score, rounded to 3 decimals, is an integer in units of 1e-3.*)
(* A text is a sequence of characters, " " standing for any whitespace.    *)
(***************************************************************************)
EXTENDS Integers, Sequences, FiniteSets, TLC

VARIABLES
    Config,            \* the Config class attributes (module-level, shared)
    topic_classifier,  \* app.topic_classifier, the loaded pipeline handle
    pc,                \* per request slot: "idle", "scoring" or "done"
    request,           \* per slot: the HTTP request being handled
    call,              \* per slot: the arguments the scorer was invoked with
    calls,             \* per slot: number of scorer invocations for the request
    result,            \* per slot: what the scorer returned (labels, scores)
    response           \* per slot: the HTTP response produced

vars == <<Config, topic_classifier, pc, request, call, calls, result, response>>

----------------------------------------------------------------------------
(* Bounds of the model *)

MaxTextLen == 2
MaxLabels == 2

Chars == {" ", "a"}
LabelPool == {"technology", "cooking"}
Workers == {1, 2}

\* Raw scores the scorer may return, in units of 1e-4.  999 is below the
\* threshold but rounds to 0.100; 1000 and 1004 round to the same value;
\* 3125 (= 5/16, exact in binary) is an exact rounding tie; values ending in
\* 5 that are not exact binary fractions are left out, because their doubles
\* are not ties.
Scores == {0, 999, 1000, 1004, 3120, 3125, 9200}
FewScores == {999, 1000}

\* Requests of the concurrent specification: a blank text, and texts that
\* strip to the same string with the labels omitted or supplied.
FewRequests ==
    { [body |-> "object", text_kind |-> "string", text |-> t,
       labels_given |-> FALSE, labels |-> <<>>] : t \in { <<" ">>, <<"a">> } }
    \cup
    { [body |-> "object", text_kind |-> "string", text |-> t,
       labels_given |-> TRUE, labels |-> << "technology", "cooking" >>] :
         t \in { <<"a">>, <<" ", "a">> } }

----------------------------------------------------------------------------
(* Config, lines 13-29 *)

TOPIC_CATEGORIES ==
    << "technology", "finance", "healthcare",
       "education", "marketing", "research",
       "environment", "sports", "entertainment",
       "politics", "science" >>

MINIMUM_CONFIDENCE_THRESHOLD == 1000

InitialConfig ==
    [ CLASSIFICATION_MODEL |-> "facebook/bart-large-mnli",
      TOPIC_CATEGORIES |-> TOPIC_CATEGORIES,
      MINIMUM_CONFIDENCE_THRESHOLD |-> MINIMUM_CONFIDENCE_THRESHOLD ]

----------------------------------------------------------------------------
(* Helpers on sequences *)

SeqsUpTo(S, n) == UNION { [1..k -> S] : k \in 0..n }

Min(a, b) == IF a < b THEN a ELSE b

RECURSIVE lstrip(_)
lstrip(s) ==
    IF s = <<>> THEN <<>>
    ELSE IF Head(s) = " " THEN lstrip(Tail(s)) ELSE s

RECURSIVE rstrip(_)
rstrip(s) ==
    IF s = <<>> THEN <<>>
    ELSE IF s[Len(s)] = " " THEN rstrip(SubSeq(s, 1, Len(s) - 1)) ELSE s

\* str.strip()
strip(s) == rstrip(lstrip(s))

\* input_text is not None
is_valid_input_not_none(input_text) == TRUE

\* lines 58-68: bool(input_text and input_text.strip())
is_valid_input(input_text) == input_text # <<>> /\ strip(input_text) # <<>>

----------------------------------------------------------------------------
(* Requests *)

\* The body of a POST: unparseable (get_json raises), falsy JSON (get_json
\* returns None or an empty object), or a non-empty JSON object.  In an
\* object, "text" is absent, null, or a string; "labels" is omitted or a list.
Texts == SeqsUpTo(Chars, MaxTextLen)
LabelLists == SeqsUpTo(LabelPool, MaxLabels)

ObjectRequests ==
    { [body |-> "object", text_kind |-> "string", text |-> t,
       labels_given |-> g, labels |-> l] :
         t \in Texts, g \in {TRUE}, l \in LabelLists }
    \cup
    { [body |-> "object", text_kind |-> "string", text |-> t,
       labels_given |-> FALSE, labels |-> <<>>] : t \in Texts }
    \cup
    { [body |-> "object", text_kind |-> k, text |-> <<>>,
       labels_given |-> g, labels |-> <<>>] :
         k \in {"absent", "null"}, g \in BOOLEAN }

Requests ==
    ObjectRequests
    \cup
    { [body |-> b, text_kind |-> "absent", text |-> <<>>,
       labels_given |-> FALSE, labels |-> <<>>] : b \in {"unparseable", "falsy"} }

NoRequest ==
    [body |-> "none", text_kind |-> "absent", text |-> <<>>,
     labels_given |-> FALSE, labels |-> <<>>]

NoCall == [text |-> <<>>, labels |-> <<>>]
NoResult == [raised |-> FALSE, labels |-> <<>>, scores |-> <<>>]
Raised == [raised |-> TRUE, labels |-> <<>>, scores |-> <<>>]
NoResponse == [code |-> 0, body |-> [none |-> TRUE]]

----------------------------------------------------------------------------
(* Responses, lines 116, 122, 136-139, 144-147 *)

BadRequest(message) == [code |-> 400, body |-> [error |-> message]]

InternalServerError_partial(details) ==
    [code |-> 500,
     body |-> [error |-> "Internal server error", details |-> details,
               topics |-> <<>>, status |-> "success"]]

InternalServerError(details) ==
    [code |-> 500,
     body |-> [error |-> "Internal server error", details |-> details]]

Success(classified_topics) ==
    [code |-> 200,
     body |-> [topics |-> classified_topics, status |-> "success"]]

----------------------------------------------------------------------------
(* The scorer, app.topic_classifier(input_text, topic_list, multi_label=True):
   one score per input label, emitted in an order of the scorer's choosing. *)

\* Orders in which the scorer may emit n entries: the rotations of 1..n and
\* their reversals (every permutation when n <= 3).
Orders(n) ==
    { [i \in 1..n |-> IF rev THEN ((k + n - i) % n) + 1 ELSE ((k + i - 1) % n) + 1] :
        k \in 0..(n - 1), rev \in BOOLEAN }

\* Score assignments to the n input positions: a profile of at most MaxLabels
\* scores, repeated along the positions.
Profiles(n, S) == [1..Min(n, MaxLabels) -> S]

ScoreAt(profile, i) == profile[((i - 1) % Len(profile)) + 1]

ScorerOutputs(topic_list, S) ==
    LET n == Len(topic_list) IN
    IF n = 0 THEN { NoResult }
    ELSE { [raised |-> FALSE,
            labels |-> [i \in 1..n |-> topic_list[o[i]]],
            scores |-> [i \in 1..n |-> ScoreAt(p, o[i])]] :
              o \in Orders(n), p \in Profiles(n, S) }

----------------------------------------------------------------------------
(* classify_text_topics, lines 92-101 *)

\* round(score, 3): round-half-to-even, from units of 1e-4 to units of 1e-3
round3(score) ==
    LET q == score \div 10
        r == score % 10
    IN  IF r < 5 THEN q
        ELSE IF r > 5 THEN q + 1
        ELSE IF q % 2 = 0 THEN q ELSE q + 1

\* line 98: if score >= Config.MINIMUM_CONFIDENCE_THRESHOLD
keep_inverted(score, threshold) == score <= threshold

keep_rounded(score, threshold) == round3(score) * 10 >= threshold

keep(score, threshold) == score >= threshold

\* lines 92-99: the list comprehension over zip(labels, scores)
RECURSIVE relevant_topics(_, _, _)
relevant_topics(labels, scores, threshold) ==
    IF labels = <<>> \/ scores = <<>> THEN <<>>
    ELSE LET rest == relevant_topics(Tail(labels), Tail(scores), threshold) IN
         IF keep(Head(scores), threshold)
         THEN << [topic |-> Head(labels),
                  confidence_score |-> round3(Head(scores))] >> \o rest
         ELSE rest

\* Insert x into a list sorted non-increasing, behind every entry whose key
\* is greater than or equal to x's (a stable descending sort).
RECURSIVE InsertDesc(_, _)
InsertDesc(sortedSeq, x) ==
    IF sortedSeq = <<>> THEN << x >>
    ELSE IF Head(sortedSeq).confidence_score >= x.confidence_score
         THEN << Head(sortedSeq) >> \o InsertDesc(Tail(sortedSeq), x)
         ELSE << x >> \o sortedSeq

RECURSIVE InsertAsc(_, _)
InsertAsc(sortedSeq, x) ==
    IF sortedSeq = <<>> THEN << x >>
    ELSE IF Head(sortedSeq).confidence_score <= x.confidence_score
         THEN << Head(sortedSeq) >> \o InsertAsc(Tail(sortedSeq), x)
         ELSE << x >> \o sortedSeq

RECURSIVE SortAsc(_, _)
SortAsc(done, todo) ==
    IF todo = <<>> THEN done
    ELSE SortAsc(InsertAsc(done, Head(todo)), Tail(todo))

RECURSIVE SortDesc(_, _)
SortDesc(done, todo) ==
    IF todo = <<>> THEN done
    ELSE SortDesc(InsertDesc(done, Head(todo)), Tail(todo))

Reverse(s) == [i \in 1..Len(s) |-> s[Len(s) + 1 - i]]

\* sorted(topics, key=confidence_score), reverse=True left out
sorted_ascending(topics) == SortAsc(<<>>, topics)

\* sorted(topics, key=confidence_score)[::-1]
sorted_then_reversed(topics) == Reverse(SortAsc(<<>>, topics))

\* line 101: sorted(relevant_topics, key=confidence_score, reverse=True);
\* Python's sort is stable, also with reverse=True.
sorted_by_confidence(topics) == SortDesc(<<>>, topics)

ranked_topics(classification_result, threshold) ==
    sorted_by_confidence(
        relevant_topics(classification_result.labels,
                        classification_result.scores, threshold))

----------------------------------------------------------------------------
(* extract_keywords, lines 104-147 *)

\* line 125: request_data.get("labels", Config.TOPIC_CATEGORIES)
topic_list_or_default(request_data, cfg) ==
    IF request_data.labels_given /\ request_data.labels # <<>>
    THEN request_data.labels ELSE cfg.TOPIC_CATEGORIES

topic_list_extended(request_data, cfg) ==
    IF request_data.labels_given
    THEN cfg.TOPIC_CATEGORIES \o request_data.labels
    ELSE cfg.TOPIC_CATEGORIES

topic_list_of(request_data, cfg) ==
    IF request_data.labels_given
    THEN request_data.labels ELSE cfg.TOPIC_CATEGORIES

\* line 119: request_data.get("text", "").strip()
input_text_of(request_data) ==
    IF request_data.text_kind = "string" THEN strip(request_data.text)
    ELSE <<>>

Init ==
    /\ Config = InitialConfig
    /\ topic_classifier = "zero-shot-classification"
    /\ pc = [w \in Workers |-> "idle"]
    /\ request = [w \in Workers |-> NoRequest]
    /\ call = [w \in Workers |-> NoCall]
    /\ calls = [w \in Workers |-> 0]
    /\ result = [w \in Workers |-> NoResult]
    /\ response = [w \in Workers |-> NoResponse]

\* A request arrives at worker w and is handled up to the return of a 400 or
\* 500 response, or up to the scorer call of line 89.
extract_keywords(w, Incoming) ==
    /\ pc[w] = "idle"
    /\ \E request_data \in Incoming :
        /\ request' = [request EXCEPT ![w] = request_data]
        /\ result' = [result EXCEPT ![w] = NoResult]
        /\ IF request_data.body = "unparseable"
           THEN \* request.get_json() raises; caught at line 141
                /\ response' = [response EXCEPT ![w] = InternalServerError("BadRequest")]
                /\ pc' = [pc EXCEPT ![w] = "done"]
                /\ call' = [call EXCEPT ![w] = NoCall]
                /\ calls' = [calls EXCEPT ![w] = 0]
           ELSE IF request_data.body = "falsy"
           THEN \* line 114-116
                /\ response' = [response EXCEPT ![w] = BadRequest("No JSON data provided")]
                /\ pc' = [pc EXCEPT ![w] = "done"]
                /\ call' = [call EXCEPT ![w] = NoCall]
                /\ calls' = [calls EXCEPT ![w] = 0]
           ELSE IF request_data.text_kind = "null"
           THEN \* None.strip() raises AttributeError; caught at line 141
                /\ response' = [response EXCEPT ![w] = InternalServerError("AttributeError")]
                /\ pc' = [pc EXCEPT ![w] = "done"]
                /\ call' = [call EXCEPT ![w] = NoCall]
                /\ calls' = [calls EXCEPT ![w] = 0]
           ELSE IF ~ is_valid_input(input_text_of(request_data))
           THEN \* line 120-122
                /\ response' = [response EXCEPT ![w] = BadRequest("No valid text provided")]
                /\ pc' = [pc EXCEPT ![w] = "done"]
                /\ call' = [call EXCEPT ![w] = NoCall]
                /\ calls' = [calls EXCEPT ![w] = 0]
           ELSE \* lines 125-131 and 89: the scorer is invoked
                /\ call' = [call EXCEPT ![w] =
                              [text |-> input_text_of(request_data),
                               labels |-> topic_list_of(request_data, Config)]]
                /\ calls' = [calls EXCEPT ![w] = 1]
                /\ pc' = [pc EXCEPT ![w] = "scoring"]
                /\ response' = [response EXCEPT ![w] = NoResponse]
    /\ UNCHANGED <<Config, topic_classifier>>

\* The scorer returns; lines 92-101 and 134-139 build the success response.
classify_text_topics_sorting_in_place(w, S) ==
    /\ pc[w] = "scoring"
    /\ \E classification_result \in ScorerOutputs(call[w].labels, S) :
        /\ result' = [result EXCEPT ![w] = classification_result]
        /\ response' = [response EXCEPT ![w] =
              Success(ranked_topics(classification_result,
                                    Config.MINIMUM_CONFIDENCE_THRESHOLD))]
        /\ Config' = IF request[w].labels_given THEN Config
                     ELSE [Config EXCEPT !.TOPIC_CATEGORIES = classification_result.labels]
    /\ pc' = [pc EXCEPT ![w] = "done"]
    /\ UNCHANGED <<topic_classifier, request, call, calls>>

classify_text_topics(w, S) ==
    /\ pc[w] = "scoring"
    /\ \E classification_result \in ScorerOutputs(call[w].labels, S) :
        /\ result' = [result EXCEPT ![w] = classification_result]
        /\ response' = [response EXCEPT ![w] =
              Success(ranked_topics(classification_result,
                                    Config.MINIMUM_CONFIDENCE_THRESHOLD))]
    /\ pc' = [pc EXCEPT ![w] = "done"]
    /\ UNCHANGED <<Config, topic_classifier, request, call, calls>>

\* The scorer raises; the exception is caught at line 141.
scorer_raises(w) ==
    /\ pc[w] = "scoring"
    /\ response' = [response EXCEPT ![w] = InternalServerError("ScoringUnavailable")]
    /\ result' = [result EXCEPT ![w] = Raised]
    /\ pc' = [pc EXCEPT ![w] = "done"]
    /\ UNCHANGED <<Config, topic_classifier, request, call, calls>>

\* The response is sent and the worker takes the next request.
send_response(w) ==
    /\ pc[w] = "done"
    /\ pc' = [pc EXCEPT ![w] = "idle"]
    /\ request' = [request EXCEPT ![w] = NoRequest]
    /\ call' = [call EXCEPT ![w] = NoCall]
    /\ calls' = [calls EXCEPT ![w] = 0]
    /\ result' = [result EXCEPT ![w] = NoResult]
    /\ response' = [response EXCEPT ![w] = NoResponse]
    /\ UNCHANGED <<Config, topic_classifier>>

Next ==
    \/ extract_keywords(1, Requests)
    \/ classify_text_topics(1, Scores)
    \/ scorer_raises(1)
    \/ send_response(1)

Spec == Init /\ [][Next]_vars

\* Two workers handling requests concurrently, their steps interleaved.
NextConcurrent ==
    \E w \in Workers :
        \/ extract_keywords(w, FewRequests)
        \/ classify_text_topics(w, FewScores)
        \/ scorer_raises(w)
        \/ send_response(w)

SpecConcurrent == Init /\ [][NextConcurrent]_vars

----------------------------------------------------------------------------
(* Vocabulary of the properties *)

Answered(w) == pc[w] = "done"
Succeeded(w) == pc[w] = "done" /\ response[w].code = 200
Topics(w) == response[w].body.topics

Blank(t) == \A i \in 1..Len(t) : t[i] = " "
BlankText(r) ==
    \/ r.text_kind = "absent"
    \/ r.text_kind = "string" /\ Blank(r.text)

Distinct(s) == \A i, j \in 1..Len(s) : i # j => s[i] # s[j]
IndexIn(s, x) == CHOOSE i \in 1..Len(s) : s[i] = x

\* The labels of the entries of a topics list whose confidence_score is v
RECURSIVE TopicsScoring(_, _)
TopicsScoring(topics, v) ==
    IF topics = <<>> THEN <<>>
    ELSE IF Head(topics).confidence_score = v
         THEN << Head(topics).topic >> \o TopicsScoring(Tail(topics), v)
         ELSE TopicsScoring(Tail(topics), v)

\* The labels the scorer emitted with a raw score of at least 0.1 that
\* rounds to v, in the order of emission
RECURSIVE EmittedScoring(_, _, _)
EmittedScoring(labels, scores, v) ==
    IF labels = <<>> THEN <<>>
    ELSE IF Head(scores) >= 1000 /\ round3(Head(scores)) = v
         THEN << Head(labels) >> \o EmittedScoring(Tail(labels), Tail(scores), v)
         ELSE EmittedScoring(Tail(labels), Tail(scores), v)

ElevenCategories ==
    << "technology", "finance", "healthcare", "education", "marketing",
       "research", "environment", "sports", "entertainment", "politics",
       "science" >>

----------------------------------------------------------------------------
(* Properties *)

\* C1: for a non-blank text and at least one candidate label, whatever the
\* scores, no returned topic has a confidence_score below 0.1 (100 in units
\* of 1e-3).
C1_NoTopicBelowThreshold ==
    \A w \in Workers :
        Succeeded(w) /\ Len(call[w].labels) >= 1 =>
            \A i \in 1..Len(Topics(w)) : Topics(w)[i].confidence_score >= 100

\* C1 witness: a label scored 0.0999 was dropped and one scored exactly 0.1
\* was returned with confidence_score 0.1.
C1_Witness ==
    /\ Succeeded(1)
    /\ \E i, j \in 1..Len(result[1].scores) :
          result[1].scores[i] = 999 /\ result[1].scores[j] = 1000
    /\ Len(Topics(1)) = 1
    /\ Topics(1)[1].confidence_score = 100

\* C2: the returned topics are sorted non-increasing by confidence_score.
C2_SortedNonIncreasing ==
    \A w \in Workers :
        Succeeded(w) =>
            \A i \in 1..(Len(Topics(w)) - 1) :
                Topics(w)[i].confidence_score >= Topics(w)[i + 1].confidence_score

\* C2 witness: the scorer emitted a lower score before a higher one, both
\* were kept, and the response lists the higher one first.
C2_Witness ==
    /\ Succeeded(1)
    /\ Len(result[1].scores) = 2
    /\ result[1].scores[1] = 3120
    /\ result[1].scores[2] = 9200
    /\ Len(Topics(1)) = 2
    /\ Topics(1)[1].confidence_score = 920
    /\ Topics(1)[2].confidence_score = 312

C4_BlankTextRejected ==
    \A w \in Workers :
        request[w].body \in {"object", "falsy"} /\ BlankText(request[w]) =>
            /\ pc[w] = "done"
            /\ calls[w] = 0
            /\ call[w] = NoCall
            /\ response[w].code = 400
            /\ DOMAIN response[w].body = {"error"}

\* C4 witness: text "  " with the labels omitted was answered 400.
C4_Witness ==
    /\ Answered(1)
    /\ request[1].body = "object"
    /\ request[1].text = << " ", " " >>
    /\ ~ request[1].labels_given
    /\ response[1].code = 400
    /\ calls[1] = 0

\* C5: the topics of a successful response are exactly the emitted labels
\* whose raw score is at least 0.1 (1000 in units of 1e-4), tested before
\* rounding; when none qualifies the response is a success with no topics.
C5_TopicsAreRawScoresAboveThreshold ==
    \A w \in Workers :
        pc[w] = "done" /\ ~ result[w].raised /\ calls[w] = 1 =>
            LET qualifying == { i \in 1..Len(result[w].scores) :
                                  result[w].scores[i] >= 1000 }
            IN  /\ response[w].code = 200
                /\ { Topics(w)[i].topic : i \in 1..Len(Topics(w)) }
                      = { result[w].labels[i] : i \in qualifying }
                /\ Len(Topics(w)) = Cardinality(qualifying)

\* C5 witness: every label scored 0.0999, which rounds to 0.100, and the
\* response is a success with an empty topics list.
C5_Witness ==
    /\ Succeeded(1)
    /\ Len(result[1].scores) = 2
    /\ \A i \in 1..2 : result[1].scores[i] = 999
    /\ Topics(1) = <<>>

\* C6 as stated: an empty label sequence is rejected with a validation error
\* (a 400 response) before the scorer is invoked.
C6_EmptyLabelsRejectedBeforeScoring ==
    \A w \in Workers :
        /\ request[w].body = "object"
        /\ request[w].text_kind = "string"
        /\ request[w].labels_given
        /\ request[w].labels = <<>>
        => /\ calls[w] = 0
           /\ pc[w] = "done" => response[w].code = 400

\* C7 as stated: no label appears twice in the topics of a response,
\* whatever label sequence the request carries.
C7_NoDuplicateTopics ==
    \A w \in Workers :
        Succeeded(w) =>
            \A i, j \in 1..Len(Topics(w)) :
                i # j => Topics(w)[i].topic # Topics(w)[j].topic

\* C7 amended: when the labels of the request are pairwise distinct (or
\* omitted), no label appears twice in the topics of the response.
C7_NoDuplicateTopicsForDistinctLabels ==
    \A w \in Workers :
        Succeeded(w) /\ Distinct(request[w].labels) =>
            \A i, j \in 1..Len(Topics(w)) :
                i # j => Topics(w)[i].topic # Topics(w)[j].topic

\* C7 witness: two distinct labels were supplied and both were returned.
C7_Witness ==
    /\ Succeeded(1)
    /\ request[1].labels_given
    /\ Len(request[1].labels) = 2
    /\ request[1].labels[1] # request[1].labels[2]
    /\ Len(Topics(1)) = 2
    /\ Topics(1)[1].topic # Topics(1)[2].topic

\* C8: a failed scorer call ends the request in a 500 response carrying only
\* "error" and "details"; every response is either a full success (topics
\* and status) or a single structured error, and the scorer is called at
\* most once per request.
C8_ErrorOrSuccessNeverMixed ==
    \A w \in Workers :
        /\ calls[w] <= 1
        /\ result[w].raised =>
              /\ pc[w] = "done"
              /\ calls[w] = 1
              /\ response[w].code = 500
        /\ pc[w] = "done" =>
              \/ /\ response[w].code = 200
                 /\ DOMAIN response[w].body = {"topics", "status"}
                 /\ response[w].body.status = "success"
              \/ /\ response[w].code = 400
                 /\ DOMAIN response[w].body = {"error"}
              \/ /\ response[w].code = 500
                 /\ DOMAIN response[w].body = {"error", "details"}
                 /\ response[w].body.error = "Internal server error"

\* C8 witness: the scorer was invoked once, raised, and the request was
\* answered 500.
C8_Witness ==
    /\ Answered(1)
    /\ result[1].raised
    /\ calls[1] = 1
    /\ response[1].code = 500
    /\ response[1].body.details = "ScoringUnavailable"

\* C9: with the labels omitted the scorer is invoked with the 11 built-in
\* categories in their fixed order; with labels supplied it is invoked with
\* exactly the supplied sequence.
C9_DefaultOrSuppliedLabels ==
    \A w \in Workers :
        calls[w] = 1 =>
            /\ request[w].labels_given => call[w].labels = request[w].labels
            /\ ~ request[w].labels_given => call[w].labels = ElevenCategories

\* C9 witness: a scorer call with the labels omitted is in flight, its 11th
\* label being "science".
C9_Witness ==
    /\ pc[1] = "scoring"
    /\ ~ request[1].labels_given
    /\ Len(call[1].labels) = 11
    /\ call[1].labels[1] = "technology"
    /\ call[1].labels[11] = "science"

\* Two workers hold the same request and the same scorer output
SameInputs(v, w) ==
    /\ request[v] = request[w]
    /\ result[v] = result[w]

\* C10: handling requests never changes the threshold, the default category
\* list or the classifier handle, and two answered requests with the same
\* text, labels and scorer output carry the same response, whatever the
\* workers handled before or in between.
C10_Stateless ==
    /\ [][Config' = Config /\ topic_classifier' = topic_classifier]_vars
    /\ [](\A v, w \in Workers :
            Answered(v) /\ Answered(w) /\ SameInputs(v, w)
                => response[v] = response[w])

\* C10 witness: both workers answered the same request with the same ranked
\* topics.
C10_Witness ==
    /\ Succeeded(1)
    /\ Succeeded(2)
    /\ SameInputs(1, 2)
    /\ Len(Topics(1)) = 2
    /\ Topics(1) = Topics(2)

====
